---- MODULE Spec2Model ----
(***************************************************************************)
(* Model of the Marp MCP server's tool dispatcher (src/marp_mcp/server.py): *)
(* call_tool, run_marp_command, the temporary-directory scope, the home    *)
(* directory output and the external renderer as an opaque process.        *)
(*                                                                         *)
(* Text is modelled by TLA+ strings, raw bytes (file contents, the error   *)
(* channel, the markdown before it is written) by sequences of 0..255.     *)
(* The two emoji of the source's messages cannot be written in a TLA+      *)
(* string; they are transliterated as "[OK]" and "[X]".                    *)
(***************************************************************************)
EXTENDS Integers, Sequences, FiniteSets, TLC

VARIABLES pc, name, arguments, args, fs, tmpdirs, probe, proc, result,
          envelope, fault, log, home0, accesses, overlap

vars == <<pc, name, arguments, args, fs, tmpdirs, probe, proc, result,
          envelope, fault, log, home0, accesses, overlap>>

(***************************************************************************)
(* Bounds                                                                  *)
(***************************************************************************)
\* number of call_tool tasks the transport layer may have in flight at once
NumProcs == 2
\* largest number of "<section" markers in a file the renderer produces
MaxSections == 2

Procs == 1..NumProcs

(***************************************************************************)
(* Bytes and text                                                          *)
(***************************************************************************)
\* the bytes of '<section'
SectionMarker == <<60, 115, 101, 99, 116, 105, 111, 110>>
\* the bytes of 'boom', a diagnostic of the renderer
BoomBytes == <<98, 111, 111, 109>>
\* a byte sequence that is not UTF-8
BadBytes == <<255>>
\* the characters of '# A'
MarkdownText == <<35, 32, 65>>

RECURSIVE Repeat(_, _)
Repeat(s, n) == IF n = 0 THEN <<>> ELSE s \o Repeat(s, n - 1)

Chr(b) ==
  CASE b = 32 -> " "  [] b = 35 -> "#"  [] b = 60 -> "<"  [] b = 65 -> "A"
    [] b = 98 -> "b"  [] b = 99 -> "c"  [] b = 101 -> "e" [] b = 105 -> "i"
    [] b = 109 -> "m" [] b = 110 -> "n" [] b = 111 -> "o" [] b = 115 -> "s"
    [] b = 116 -> "t"

\* bytes.decode(): the bytes of the model are ASCII or 0xFF, and 0xFF occurs
\* in no UTF-8 sequence, so a sequence is decodable iff it has no byte >= 128
Utf8Valid(bytes) == \A k \in 1..Len(bytes) : bytes[k] < 128

RECURSIVE Decode(_)
Decode(bytes) ==
  IF bytes = <<>> THEN "" ELSE Chr(Head(bytes)) \o Decode(Tail(bytes))

\* str.encode() of a text given by its code points (all below 128 here)
Encode(points) == points

\* str(e) of the UnicodeDecodeError bytes.decode() raises
DecodeErrorText == "'utf-8' codec can't decode byte 0xff in position 0: invalid start byte"

B64Alphabet ==
  <<"A","B","C","D","E","F","G","H","I","J","K","L","M","N","O","P",
    "Q","R","S","T","U","V","W","X","Y","Z","a","b","c","d","e","f",
    "g","h","i","j","k","l","m","n","o","p","q","r","s","t","u","v",
    "w","x","y","z","0","1","2","3","4","5","6","7","8","9","+","/">>

B64Char(v) == B64Alphabet[v + 1]

RECURSIVE B64Encode(_)
B64Encode(bytes) ==
  IF Len(bytes) = 0 THEN ""
  ELSE IF Len(bytes) = 1 THEN
    B64Char(bytes[1] \div 4) \o B64Char((bytes[1] % 4) * 16) \o "=="
  ELSE IF Len(bytes) = 2 THEN
    B64Char(bytes[1] \div 4)
      \o B64Char((bytes[1] % 4) * 16 + bytes[2] \div 16)
      \o B64Char((bytes[2] % 16) * 4) \o "="
  ELSE
    B64Char(bytes[1] \div 4)
      \o B64Char((bytes[1] % 4) * 16 + bytes[2] \div 16)
      \o B64Char((bytes[2] % 16) * 4 + bytes[3] \div 64)
      \o B64Char(bytes[3] % 64)
      \o B64Encode(SubSeq(bytes, 4, Len(bytes)))

\* str.count(sub) on the decoded text: UTF-8 is self-synchronising, so the
\* occurrences of an ASCII marker in the text are those of its bytes
RECURSIVE StrCount(_, _)
StrCount(bytes, sub) ==
  IF Len(bytes) < Len(sub) THEN 0
  ELSE IF SubSeq(bytes, 1, Len(sub)) = sub
       THEN 1 + StrCount(SubSeq(bytes, Len(sub) + 1, Len(bytes)), sub)
       ELSE StrCount(Tail(bytes), sub)

\* dict.get(key, default)
DictGet(d, key, default) == IF key \in DOMAIN d THEN d[key] ELSE default

\* truthiness of an Optional[str]: None (absent) and "" are false
Truthy(d, key) == key \in DOMAIN d /\ d[key] # ""

(***************************************************************************)
(* The filesystem: a function from paths to the bytes of the file there.   *)
(* A path is <<"tmp", d, file>> (a file of temporary directory d) or       *)
(* <<"home", 0, file>> (a file of the user's home directory).              *)
(***************************************************************************)
TmpPath(d, file) == <<"tmp", d, file>>
HomePath(file) == <<"home", 0, file>>

\* str(path)
PathStr(p) ==
  IF p[1] = "home" THEN "/home/user/" \o p[3]
  ELSE "/tmp/tmp" \o ToString(p[2]) \o "/" \o p[3]

EmptyFs == [p \in {} |-> <<>>]

FsWrite(f, p, bytes) ==
  [q \in (DOMAIN f) \cup {p} |-> IF q = p THEN bytes ELSE f[q]]

\* os.rename(src, dst): dst is replaced when it exists
FsRename(f, src, dst) ==
  [q \in ((DOMAIN f) \ {src}) \cup {dst} |-> IF q = dst THEN f[src] ELSE f[q]]

\* the files of temporary directory d
TmpFiles(f, d) == {p \in DOMAIN f : p[1] = "tmp" /\ p[2] = d}

\* the home directory's files and their contents
Home(f) == [p \in {q \in DOMAIN f : q[1] = "home"} |-> f[p]]

\* the mutant of RmTree: the exit of the scope removes the input file only
RmTree_InputOnly(f, d) ==
  [p \in (DOMAIN f) \ {q \in TmpFiles(f, d) :
                         q[3] \in {"input.md", "validate.md", "preview.md"}}
     |-> f[p]]

\* TemporaryDirectory.__exit__: the directory and everything in it is removed
RmTree(f, d) == [p \in (DOMAIN f) \ TmpFiles(f, d) |-> f[p]]

\* the mutant of TmpDirOf: every call uses the same directory
TmpDirOf_Shared(i) == 1

\* tempfile.TemporaryDirectory(): a directory no other live call has
TmpDirOf(i) == i

(***************************************************************************)
(* Messages                                                                *)
(***************************************************************************)
InstallMsg ==
  "Marp CLI not found. Please install it with: npm install -g @marp-team/marp-cli"
\* str(e) of the FileNotFoundError subprocess.run raises when there is no binary
NotFoundText == "[Errno 2] No such file or directory: 'marp'"
\* str(e) of the error create_subprocess_exec raises when the binary cannot start
SpawnErrorText == "[Errno 13] Permission denied: 'marp'"
CommandFailedText == "Command failed"
UnknownErrorText == "Unknown error"
ValidText == "[OK] Markdown is valid Marp syntax"

Text(t) == [type |-> "text", text |-> t]
Image(data, mime) == [type |-> "image", data |-> data, mimeType |-> mime]

ThemesText ==
  "Available Marp themes:\n[{name: default, description: Default Marp theme}, "
    \o "{name: gaia, description: Gaia theme - gorgeous and modern}, "
    \o "{name: uncover, description: Uncover theme - clean and minimal}]"

\* the text each operation puts in front of a failure reason
ErrPrefix(nm) ==
  CASE nm = "marp_convert" -> "Error converting markdown: "
    [] nm = "marp_validate" -> "[X] Validation failed:\n"
    [] nm = "marp_preview" -> "Error generating preview: "

\* str.upper() on the output formats of the model
Upper(fmt) ==
  CASE fmt = "html" -> "HTML" [] fmt = "pdf" -> "PDF" [] fmt = "pptx" -> "PPTX"
    [] fmt = "png" -> "PNG" [] fmt = "jpeg" -> "JPEG" [] fmt = "gif" -> "GIF"

(***************************************************************************)
(* Parameters and the renderer's argument list                             *)
(***************************************************************************)
ToolNames == {"marp_convert", "marp_get_themes", "marp_validate", "marp_preview"}
RendererTools == {"marp_convert", "marp_validate", "marp_preview"}

EmptyDict == [k \in {} |-> TRUE]

\* MarpConvertParams(**arguments) and MarpValidateParams(**arguments) raise
\* a ValidationError unless the required field is there
ParamsValid(nm, a) ==
  nm \in {"marp_convert", "marp_validate"} => "markdown" \in DOMAIN a

\* MarpConvertParams: the defaults of the fields that are not given
\* (theme stays absent, which is None)
ConvertParams(a) ==
  [k \in (DOMAIN a) \cup {"output_format", "options"} |->
     IF k \in DOMAIN a THEN a[k]
     ELSE IF k = "output_format" THEN "html" ELSE EmptyDict]

ext_map ==
  [html |-> ".html", pdf |-> ".pdf", pptx |-> ".pptx", png |-> ".png",
   jpeg |-> ".jpg"]

\* the mutant of OutputName: the extension is the format's name
OutputName_FormatName(fmt) == "output." \o fmt

\* f"output{ext_map.get(params.output_format, '.html')}"
OutputName(fmt) == "output" \o DictGet(ext_map, fmt, ".html")

InputFile(nm) ==
  CASE nm = "marp_convert" -> "input.md"
    [] nm = "marp_validate" -> "validate.md"
    [] nm = "marp_preview" -> "preview.md"

OutputFile(nm, a) ==
  CASE nm = "marp_convert" -> OutputName(ConvertParams(a).output_format)
    [] nm = "marp_validate" -> "validate.html"
    [] nm = "marp_preview" -> "preview.html"

\* the markdown written to the input file
MarkdownOf(nm, a) == DictGet(a, "markdown", <<>>)

Flag(o, field, flag) == IF DictGet(o, field, FALSE) THEN <<flag>> ELSE <<>>

\* lines 227-235
OptionFlags(o) ==
  IF o = EmptyDict THEN <<>>
  ELSE Flag(o, "allow_local_files", "--allow-local-files")
         \o Flag(o, "html", "--html")
         \o Flag(o, "pdf_notes", "--pdf-notes")
         \o Flag(o, "pdf_outlines", "--pdf-outlines")

\* lines 221-235
ConvertArgs(params, d) ==
  <<PathStr(TmpPath(d, "input.md")), "-o",
    PathStr(TmpPath(d, OutputName(params.output_format)))>>
    \o (IF Truthy(params, "theme") THEN <<"--theme", params.theme>> ELSE <<>>)
    \o OptionFlags(params.options)

ValidateArgs(d) ==
  <<PathStr(TmpPath(d, "validate.md")), "-o", PathStr(TmpPath(d, "validate.html"))>>

PreviewArgs(a, d) ==
  <<PathStr(TmpPath(d, "preview.md")), "-o", PathStr(TmpPath(d, "preview.html")),
    "--theme", DictGet(a, "theme", "default")>>

BuildArgs(nm, a, d) ==
  CASE nm = "marp_convert" -> ConvertArgs(ConvertParams(a), d)
    [] nm = "marp_validate" -> ValidateArgs(d)
    [] nm = "marp_preview" -> PreviewArgs(a, d)

(***************************************************************************)
(* run_marp_command: the outcome dictionary                                *)
(***************************************************************************)
ProbeOutcomes == {"ok", "nonzero", "notfound"}

\* the mutant of ProbeAvailable: the probe's exit status is not looked at
ProbeAvailable_Always(outcome) == TRUE

\* line 66 and the except clause: the command runs only after a version
\* query that exited 0
ProbeAvailable(outcome) == outcome = "ok"

\* what run_marp_command returns when the version query does not exit 0:
\* the fixed message on a nonzero exit (lines 66-70), str(e) when
\* subprocess.run raised (lines 98-103)
ProbeFailure(outcome) ==
  IF outcome = "nonzero" THEN [success |-> FALSE, error |-> InstallMsg]
  ELSE [success |-> FALSE, error |-> NotFoundText]

\* lines 98-103 for a fault of create_subprocess_exec
SpawnFailure == [success |-> FALSE, error |-> SpawnErrorText]

\* the mutant of ExitResult: "Unknown error" stands for an empty error channel
ExitResult_Unknown(rc, stdout, stderr) ==
  IF ~Utf8Valid(stdout) \/ ~Utf8Valid(stderr)
  THEN [success |-> FALSE, error |-> DecodeErrorText]
  ELSE IF rc = 0
  THEN [success |-> TRUE, stdout |-> Decode(stdout), stderr |-> Decode(stderr)]
  ELSE [success |-> FALSE,
        error |-> IF stderr # <<>> THEN Decode(stderr) ELSE UnknownErrorText,
        stdout |-> Decode(stdout)]

\* lines 85-103: the outcome of a process that exited with rc; a channel
\* that does not decode raises, which the except clause turns into a failure
ExitResult(rc, stdout, stderr) ==
  IF ~Utf8Valid(stdout) \/ ~Utf8Valid(stderr)
  THEN [success |-> FALSE, error |-> DecodeErrorText]
  ELSE IF rc = 0
  THEN [success |-> TRUE, stdout |-> Decode(stdout), stderr |-> Decode(stderr)]
  ELSE [success |-> FALSE,
        error |-> IF stderr # <<>> THEN Decode(stderr) ELSE CommandFailedText,
        stdout |-> Decode(stdout)]

NoResult == [pending |-> TRUE]

(***************************************************************************)
(* call_tool after run_marp_command has returned: what each operation      *)
(* makes of the outcome. The value is the envelope returned, or the fault  *)
(* raised, and whether the output file was moved to the home directory.    *)
(***************************************************************************)
NoFault == "none"

Returns(env) ==
  [envelope |-> env, fault |-> NoFault, moved |-> FALSE, dest |-> HomePath("")]
Raises(f) ==
  [envelope |-> <<>>, fault |-> f, moved |-> FALSE, dest |-> HomePath("")]
Moves(env, dest) ==
  [envelope |-> env, fault |-> NoFault, moved |-> TRUE, dest |-> dest]

ErrorItem(nm, res) == Text(ErrPrefix(nm) \o DictGet(res, "error", UnknownErrorText))

\* Path.home() / f"marp_output{ext_map[params.output_format]}"
SavePath(fmt) == HomePath("marp_output" \o ext_map[fmt])

\* lines 239-277
ConvertHandle(params, res, exists, content, renameOK) ==
  LET fmt == params.output_format IN
  IF res.success /\ exists THEN
    IF fmt \in {"png", "jpeg"} THEN
      Returns(<<Text("Successfully generated " \o Upper(fmt) \o " presentation"),
                Image(B64Encode(content), "image/" \o fmt)>>)
    ELSE IF fmt = "html" /\ ~Utf8Valid(content) THEN Raises("UnicodeDecodeError")
    ELSE IF fmt = "html" /\ Decode(content) # "" THEN
      Returns(<<Text("Successfully generated HTML presentation:\n\n"
                       \o Decode(content))>>)
    ELSE IF fmt \notin DOMAIN ext_map THEN Raises("KeyError")
    ELSE IF ~renameOK THEN Raises("OSError")
    ELSE Moves(<<Text("Successfully generated " \o Upper(fmt)
                        \o " presentation. Saved to: " \o PathStr(SavePath(fmt)))>>,
               SavePath(fmt))
  ELSE Returns(<<ErrorItem("marp_convert", res)>>)

\* lines 305-314
ValidateHandle(res, exists) ==
  IF res.success THEN Returns(<<Text(ValidText)>>)
  ELSE Returns(<<ErrorItem("marp_validate", res)>>)

PreviewText(slides, theme, slide) ==
  "\nPresentation Preview:\n- Total slides: " \o ToString(slides)
    \o "\n- Theme: " \o theme \o "\n- Format: HTML\n\n"
    \o "Preview generated successfully! The HTML contains all slides.\n"
    \o "To view specific slide #" \o ToString(slide)
    \o ", open the HTML in a browser.\n"

\* the mutant of PreviewHandle: the output file is not looked for
PreviewHandle_NoExists(a, res, exists, content) ==
  IF res.success THEN
    Returns(<<Text(PreviewText(StrCount(content, SectionMarker),
                               DictGet(a, "theme", "default"), 1))>>)
  ELSE Returns(<<ErrorItem("marp_preview", res)>>)

\* lines 331-355; slide_number or 1
PreviewHandle(a, res, exists, content) ==
  IF res.success /\ exists THEN
    IF ~Utf8Valid(content) THEN Raises("UnicodeDecodeError")
    ELSE Returns(<<Text(PreviewText(
                     StrCount(content, SectionMarker),
                     DictGet(a, "theme", "default"),
                     IF DictGet(a, "slide_number", 0) # 0
                     THEN a.slide_number ELSE 1))>>)
  ELSE Returns(<<ErrorItem("marp_preview", res)>>)

Handle(nm, a, res, exists, content, renameOK) ==
  CASE nm = "marp_convert" ->
         ConvertHandle(ConvertParams(a), res, exists, content, renameOK)
    [] nm = "marp_validate" -> ValidateHandle(res, exists)
    [] nm = "marp_preview" -> PreviewHandle(a, res, exists, content)

(***************************************************************************)
(* State                                                                   *)
(*   pc[i]        where task i is: "idle", "probe" (input written, about   *)
(*                to run the version query), "spawn", "running" (awaiting  *)
(*                the renderer), "done" (call_tool has returned or raised) *)
(*   fs, tmpdirs  the filesystem and the temporary directories that exist  *)
(*   probe[i]     the outcome of the version query, "none" before it       *)
(*   proc[i]      the renderer process of the call: its exit status, error *)
(*                channel and the output file it produced                  *)
(*   result[i]    what run_marp_command returned                           *)
(*   envelope[i], fault[i]   what call_tool returned, or the fault raised  *)
(*   log[i]       the filesystem and process operations of the call, in    *)
(*                order; home0[i] the home directory when the call began   *)
(*   accesses     <<path, i>>: call i read or wrote the file at path       *)
(*   overlap      <<i, j>>: calls i and j were in flight at the same time  *)
(***************************************************************************)
NoProc ==
  [state |-> "none", rc |-> -1, stdout |-> <<>>, stderr |-> <<>>,
   produced |-> FALSE, bytes |-> <<>>]

Init ==
  /\ pc = [i \in Procs |-> "idle"]
  /\ name = [i \in Procs |-> ""]
  /\ arguments = [i \in Procs |-> EmptyDict]
  /\ args = [i \in Procs |-> <<>>]
  /\ fs = EmptyFs
  /\ tmpdirs = {}
  /\ probe = [i \in Procs |-> "none"]
  /\ proc = [i \in Procs |-> NoProc]
  /\ result = [i \in Procs |-> NoResult]
  /\ envelope = [i \in Procs |-> <<>>]
  /\ fault = [i \in Procs |-> NoFault]
  /\ log = [i \in Procs |-> <<>>]
  /\ home0 = [i \in Procs |-> EmptyFs]
  /\ accesses = {}
  /\ overlap = {}

InFlight(i) == pc[i] \in {"probe", "spawn", "running"}

\* call_tool returns env, or raises f, without having touched a file
EndsAtOnce(i, env, f) ==
  /\ pc' = [pc EXCEPT ![i] = "done"]
  /\ envelope' = [envelope EXCEPT ![i] = env]
  /\ fault' = [fault EXCEPT ![i] = f]

\* lines 198-236, 292-301, 316-327: dispatch on the name, validate the
\* arguments, enter the temporary-directory scope, write the input file and
\* build the argument list. fsop is what the filesystem does.
CallTool(i, nm, a, fsop) ==
  /\ pc[i] = "idle"
  /\ name' = [name EXCEPT ![i] = nm]
  /\ arguments' = [arguments EXCEPT ![i] = a]
  /\ home0' = [home0 EXCEPT ![i] = Home(fs)]
  /\ UNCHANGED <<probe, proc, result>>
  /\ IF nm = "marp_get_themes" THEN
       /\ EndsAtOnce(i, <<Text(ThemesText)>>, NoFault)
       /\ UNCHANGED <<args, fs, tmpdirs, log, accesses, overlap>>
     ELSE IF nm \notin ToolNames THEN
       /\ EndsAtOnce(i, <<Text("Unknown tool: " \o nm)>>, NoFault)
       /\ UNCHANGED <<args, fs, tmpdirs, log, accesses, overlap>>
     ELSE IF ~ParamsValid(nm, a) THEN
       /\ EndsAtOnce(i, <<>>, "ValidationError")
       /\ UNCHANGED <<args, fs, tmpdirs, log, accesses, overlap>>
     ELSE IF fsop = "mkdtemp_fails" THEN
       /\ EndsAtOnce(i, <<>>, "OSError")
       /\ UNCHANGED <<args, fs, tmpdirs, log, accesses, overlap>>
     ELSE IF fsop = "write_fails" THEN
       /\ EndsAtOnce(i, <<>>, "OSError")
       /\ log' = [log EXCEPT ![i] = <<"mkdtemp", "rmtree">>]
       /\ UNCHANGED <<args, fs, tmpdirs, accesses, overlap>>
     ELSE
       LET d == TmpDirOf(i)
           input == TmpPath(d, InputFile(nm))
       IN /\ tmpdirs' = tmpdirs \cup {d}
          /\ fs' = FsWrite(fs, input, Encode(MarkdownOf(nm, a)))
          /\ args' = [args EXCEPT ![i] = BuildArgs(nm, a, d)]
          /\ log' = [log EXCEPT ![i] = <<"mkdtemp", "write_input">>]
          /\ accesses' = accesses \cup {<<input, i>>}
          /\ overlap' = overlap \cup {<<i, j>> : j \in {k \in Procs : InFlight(k)}}
                                \cup {<<j, i>> : j \in {k \in Procs : InFlight(k)}}
          /\ pc' = [pc EXCEPT ![i] = "probe"]
          /\ UNCHANGED <<envelope, fault>>

\* lines 239-277, 305-314, 331-355 and the exit of the with block: call_tool
\* resumes with the outcome res on the filesystem f and returns or raises;
\* the temporary directory is removed on the way out
Finish(i, res, f, renameOK, lg) ==
  LET d == TmpDirOf(i)
      out == TmpPath(d, OutputFile(name[i], arguments[i]))
      exists == out \in DOMAIN f
      content == IF exists THEN f[out] ELSE <<>>
      h == Handle(name[i], arguments[i], res, exists, content, renameOK)
      looked == res.success /\ name[i] # "marp_validate"
  IN /\ result' = [result EXCEPT ![i] = res]
     /\ envelope' = [envelope EXCEPT ![i] = h.envelope]
     /\ fault' = [fault EXCEPT ![i] = h.fault]
     /\ fs' = RmTree(IF h.moved THEN FsRename(f, out, h.dest) ELSE f, d)
     /\ tmpdirs' = tmpdirs \ {d}
     /\ log' = [log EXCEPT ![i] =
                  lg \o (IF h.moved THEN <<"rename">> ELSE <<>>) \o <<"rmtree">>]
     /\ accesses' = accesses
                      \cup (IF looked \/ proc'[i].produced THEN {<<out, i>>} ELSE {})
                      \cup (IF h.moved THEN {<<h.dest, i>>} ELSE {})
     /\ pc' = [pc EXCEPT ![i] = "done"]

\* lines 59-70: subprocess.run(["marp", "--version"])
Probe(i, outcome) ==
  /\ pc[i] = "probe"
  /\ probe' = [probe EXCEPT ![i] = outcome]
  /\ UNCHANGED <<name, arguments, args, proc, home0, overlap>>
  /\ IF ProbeAvailable(outcome) THEN
       /\ pc' = [pc EXCEPT ![i] = "spawn"]
       /\ log' = [log EXCEPT ![i] = Append(@, "probe")]
       /\ UNCHANGED <<fs, tmpdirs, result, envelope, fault, accesses>>
     ELSE Finish(i, ProbeFailure(outcome), fs, TRUE, Append(log[i], "probe"))

\* lines 73-81: asyncio.create_subprocess_exec("marp", *args)
Spawn(i, ok) ==
  /\ pc[i] = "spawn"
  /\ UNCHANGED <<name, arguments, args, probe, home0, overlap>>
  /\ IF ok THEN
       /\ pc' = [pc EXCEPT ![i] = "running"]
       /\ proc' = [proc EXCEPT ![i].state = "running"]
       /\ log' = [log EXCEPT ![i] = Append(@, "spawn")]
       /\ UNCHANGED <<fs, tmpdirs, result, envelope, fault, accesses>>
     ELSE
       /\ proc' = proc
       /\ Finish(i, SpawnFailure, fs, TRUE, log[i])

\* line 83 onwards: the renderer exits with rc, stdout on its output channel
\* and stderr on its error channel, having produced the output file
\* (out.exists) or not; process.communicate() returns and call_tool runs to
\* its end
RendererExit(i, rc, stdout, stderr, out, renameOK) ==
  /\ pc[i] = "running"
  /\ proc' = [proc EXCEPT ![i] =
                [state |-> "exited", rc |-> rc, stdout |-> stdout, stderr |-> stderr,
                 produced |-> out.exists, bytes |-> out.bytes]]
  /\ UNCHANGED <<name, arguments, args, probe, home0, overlap>>
  /\ Finish(i, ExitResult(rc, stdout, stderr),
            IF out.exists
            THEN FsWrite(fs, TmpPath(TmpDirOf(i), OutputFile(name[i], arguments[i])),
                         out.bytes)
            ELSE fs,
            renameOK, log[i])

\* the transport layer takes the result; the task is gone
Return(i) ==
  /\ pc[i] = "done"
  /\ pc' = [pc EXCEPT ![i] = "idle"]
  /\ name' = [name EXCEPT ![i] = ""]
  /\ arguments' = [arguments EXCEPT ![i] = EmptyDict]
  /\ args' = [args EXCEPT ![i] = <<>>]
  /\ probe' = [probe EXCEPT ![i] = "none"]
  /\ proc' = [proc EXCEPT ![i] = NoProc]
  /\ result' = [result EXCEPT ![i] = NoResult]
  /\ envelope' = [envelope EXCEPT ![i] = <<>>]
  /\ fault' = [fault EXCEPT ![i] = NoFault]
  /\ log' = [log EXCEPT ![i] = <<>>]
  /\ home0' = [home0 EXCEPT ![i] = EmptyFs]
  /\ accesses' = {x \in accesses : x[2] # i}
  /\ overlap' = {x \in overlap : x[1] # i /\ x[2] # i}
  /\ UNCHANGED <<fs, tmpdirs>>

(***************************************************************************)
(* Inputs                                                                  *)
(***************************************************************************)
Merge(f, g) ==
  [k \in (DOMAIN f) \cup (DOMAIN g) |-> IF k \in DOMAIN f THEN f[k] ELSE g[k]]

\* the field key is missing, or has one of vals
Opt(key, vals) == {EmptyDict} \cup {[k \in {key} |-> v] : v \in vals}

Formats == {"html", "pdf", "pptx", "png", "jpeg", "gif"}
Themes == {"", "gaia"}
OptionFields == {"allow_local_files", "html", "pdf_notes", "pdf_outlines"}
AllOptionDicts == UNION {[S -> BOOLEAN] : S \in SUBSET OptionFields}
SomeOptionDicts == {[allow_local_files |-> TRUE, html |-> FALSE]}

ConvertArguments(formats, themes, options) ==
  {Merge(Merge(m, f), Merge(t, o)) :
     m \in Opt("markdown", {MarkdownText}), f \in Opt("output_format", formats),
     t \in Opt("theme", themes), o \in Opt("options", options)}

ValidateArguments == Opt("markdown", {MarkdownText})

PreviewArguments ==
  {Merge(m, Merge(t, n)) :
     m \in Opt("markdown", {MarkdownText}), t \in Opt("theme", {"gaia"}),
     n \in Opt("slide_number", {2})}

Names == ToolNames \cup {"marp_export"}

ArgumentsOf(nm) ==
  CASE nm = "marp_convert" -> ConvertArguments(Formats, {"gaia"}, SomeOptionDicts)
    [] nm = "marp_validate" -> ValidateArguments
    [] nm = "marp_preview" -> PreviewArguments
    [] nm = "marp_get_themes" -> Opt("include_builtin", {FALSE})
    [] OTHER -> {EmptyDict}

FsOps == {"ok", "mkdtemp_fails", "write_fails"}
ExitCodes == {0, 1}
OutputChannels == {<<>>, BadBytes}
ErrorChannels == {<<>>, BoomBytes, BadBytes}
Contents == {Repeat(SectionMarker, k) : k \in 0..MaxSections} \cup {BadBytes}
Outputs ==
  {[exists |-> FALSE, bytes |-> <<>>]} \cup {[exists |-> TRUE, bytes |-> b] : b \in Contents}

(***************************************************************************)
(* Spec: one call at a time, every operation, every outcome of the         *)
(* renderer and of the filesystem; the home directory lasts across calls.  *)
(***************************************************************************)
Next ==
  \E i \in {1} :
    \/ \E nm \in Names : \E a \in ArgumentsOf(nm) : \E fsop \in FsOps :
         CallTool(i, nm, a, fsop)
    \/ \E outcome \in ProbeOutcomes : Probe(i, outcome)
    \/ \E ok \in BOOLEAN : Spawn(i, ok)
    \/ \E rc \in ExitCodes : \E stdout \in OutputChannels :
         \E stderr \in ErrorChannels : \E out \in Outputs : \E renameOK \in BOOLEAN :
           RendererExit(i, rc, stdout, stderr, out, renameOK)
    \/ Return(i)

Spec == Init /\ [][Next]_vars

(***************************************************************************)
(* SpecArgs: the argument list of marp_convert, over every combination of  *)
(* output format, theme and options.                                       *)
(***************************************************************************)
NextArgs ==
  \E a \in ConvertArguments(Formats, Themes, AllOptionDicts) :
    CallTool(1, "marp_convert", a, "ok")

SpecArgs == Init /\ [][NextArgs]_vars

(***************************************************************************)
(* SpecConc: NumProcs calls in flight at once on a filesystem that works.  *)
(***************************************************************************)
ConcNames == {"marp_convert", "marp_validate"}

ConcArguments(nm) ==
  IF nm = "marp_convert"
  THEN {[markdown |-> MarkdownText, output_format |-> f] : f \in {"html", "pdf"}}
  ELSE {[markdown |-> MarkdownText]}

ConcOutputs ==
  {[exists |-> FALSE, bytes |-> <<>>], [exists |-> TRUE, bytes |-> SectionMarker]}

NextConc ==
  \E i \in Procs :
    \/ \E nm \in ConcNames : \E a \in ConcArguments(nm) : CallTool(i, nm, a, "ok")
    \/ \E outcome \in {"ok", "nonzero"} : Probe(i, outcome)
    \/ Spawn(i, TRUE)
    \/ \E rc \in ExitCodes : \E out \in ConcOutputs :
         RendererExit(i, rc, <<>>, <<>>, out, TRUE)
    \/ Return(i)

SpecConc == Init /\ [][NextConc]_vars

(***************************************************************************)
(* Properties                                                              *)
(***************************************************************************)
Done(i) == pc[i] = "done"
Range(q) == {q[k] : k \in 1..Len(q)}
Exited(i) == proc[i].state = "exited"
Unavailable(i) == probe[i] \in {"nonzero", "notfound"}
\* both channels of call i's renderer decode
Decodable(i) == Utf8Valid(proc[i].stdout) /\ Utf8Valid(proc[i].stderr)
FormatOf(i) == ConvertParams(arguments[i]).output_format
\* run_marp_command returned to call i, and returned a success
Succeeded(i) == "success" \in DOMAIN result[i] /\ result[i].success

\* every failure reason a call of the model can report
Reasons ==
  {InstallMsg, NotFoundText, SpawnErrorText, CommandFailedText, UnknownErrorText,
   DecodeErrorText, Decode(BoomBytes)}

\* the envelope of call i is one text item reporting a failure
IsErrorEnvelope(i) ==
  /\ Len(envelope[i]) = 1
  /\ envelope[i][1].type = "text"
  /\ envelope[i][1].text \in {ErrPrefix(name[i]) \o r : r \in Reasons}

\* C1: every call ends with one result envelope whose items are text or
\* image items; no call ends with a fault raised out of call_tool.
C1_NeverRaises ==
  \A i \in Procs :
    Done(i) =>
      /\ fault[i] = NoFault
      /\ Len(envelope[i]) >= 1
      /\ \A k \in 1..Len(envelope[i]) : envelope[i][k].type \in {"text", "image"}

\* C2: when the version query finds the renderer unreachable (nonzero exit,
\* or no binary to start), a marp_convert, marp_validate or marp_preview
\* call returns one text item carrying the fixed installation message and
\* never spawns the renderer with its argument list.
C2_InstallMessage ==
  \A i \in Procs :
    (Done(i) /\ name[i] \in RendererTools /\ Unavailable(i)) =>
      /\ envelope[i] = <<Text(ErrPrefix(name[i]) \o InstallMsg)>>
      /\ "spawn" \notin Range(log[i])

\* C3 as stated: in a call where the renderer is unavailable no temporary
\* directory and no input file is created at any point of the call.
C3_NoFileIO ==
  \A i \in Procs :
    Unavailable(i) =>
      /\ "mkdtemp" \notin Range(log[i])
      /\ "write_input" \notin Range(log[i])

\* C3 amended: in a call where the renderer is unavailable, the temporary
\* directory and the input file are created before the version query; the
\* call then ends without spawning the renderer, removes the temporary
\* directory and leaves the home directory as it found it.
C3_WriteThenProbe ==
  \A i \in Procs :
    Unavailable(i) =>
      /\ Done(i)
      /\ log[i] = <<"mkdtemp", "write_input", "probe", "rmtree">>
      /\ proc[i].state = "none"
      /\ TmpFiles(fs, TmpDirOf(i)) = {}
      /\ Home(fs) = home0[i]

C3_Witness ==
  \E i \in Procs : Done(i) /\ name[i] = "marp_convert" /\ probe[i] = "nonzero"

\* C4: once a call has ended (envelope returned or fault raised), no file of
\* its temporary directory and not the directory itself is on the filesystem.
C4_TempRemoved ==
  \A i \in Procs :
    pc[i] \in {"done", "idle"} =>
      /\ TmpFiles(fs, TmpDirOf(i)) = {}
      /\ TmpDirOf(i) \notin tmpdirs

C4_Witness ==
  \E i \in Procs :
    /\ Done(i) /\ name[i] = "marp_convert" /\ fault[i] = "KeyError"
    /\ proc[i].produced /\ "write_input" \in Range(log[i])

\* C5: a marp_convert whose renderer succeeded and produced the output file
\* (decodable when it is read as text, and the filesystem let it be moved)
\* returns, by output_format: png/jpeg, a text item then an image item with
\* the base64 of the file's bytes; html, one text item inlining the file's
\* contents, the empty file included; pdf/pptx, one text item naming a path
\* of the home directory, where the file then is.
C5_EnvelopeByFormat ==
  \A i \in Procs :
    (/\ Done(i) /\ name[i] = "marp_convert" /\ Succeeded(i)
     /\ proc[i].produced /\ FormatOf(i) \in DOMAIN ext_map
     /\ Utf8Valid(proc[i].bytes) /\ fault[i] # "OSError") =>
      /\ fault[i] = NoFault
      /\ IF FormatOf(i) \in {"png", "jpeg"} THEN
           /\ Len(envelope[i]) = 2
           /\ envelope[i][1].type = "text"
           /\ envelope[i][2] = Image(B64Encode(proc[i].bytes), "image/" \o FormatOf(i))
         ELSE IF FormatOf(i) = "html" THEN
           envelope[i] = <<Text("Successfully generated HTML presentation:\n\n"
                                  \o Decode(proc[i].bytes))>>
         ELSE
           /\ Len(envelope[i]) = 1
           /\ envelope[i][1].type = "text"
           /\ HomePath("marp_output." \o FormatOf(i)) \in DOMAIN fs

\* C6: a call changes the home directory only when it is a marp_convert to
\* pdf or pptx that succeeded, and then by writing marp_output.pdf or
\* marp_output.pptx over any file of that name; every other call leaves the
\* home directory as it found it.
C6_HomeOnlyPdfPptx ==
  \A i \in Procs :
    Done(i) =>
      IF /\ name[i] = "marp_convert" /\ FormatOf(i) \in {"pdf", "pptx"}
         /\ fault[i] = NoFault /\ Succeeded(i) /\ proc[i].produced
      THEN Home(fs) = FsWrite(home0[i], HomePath("marp_output." \o FormatOf(i)),
                              proc[i].bytes)
      ELSE Home(fs) = home0[i]

\* C7 as stated: whenever the renderer exited 0 without the output file, the
\* call (marp_convert, marp_validate or marp_preview) returns an error item.
C7_MissingOutputIsError ==
  \A i \in Procs :
    (Done(i) /\ Exited(i) /\ proc[i].rc = 0 /\ ~proc[i].produced) =>
      fault[i] = NoFault /\ IsErrorEnvelope(i)

\* C7 amended: when the renderer exited 0 without the output file,
\* marp_convert and marp_preview return one error text item; marp_validate
\* does not look for the file and confirms the markdown whenever the
\* renderer exited 0 and its output and error channels decode.
C7_MissingOutputConvertPreview ==
  \A i \in Procs :
    (Done(i) /\ Exited(i) /\ proc[i].rc = 0 /\ ~proc[i].produced) =>
      /\ fault[i] = NoFault
      /\ IF name[i] = "marp_validate" /\ Decodable(i)
         THEN envelope[i] = <<Text(ValidText)>>
         ELSE IsErrorEnvelope(i)

C7_Witness ==
  \E i \in Procs :
    /\ Done(i) /\ name[i] = "marp_preview" /\ Exited(i)
    /\ proc[i].rc = 0 /\ ~proc[i].produced /\ Decodable(i)

\* C8 as stated: no file read or written by one call is read or written by
\* another call that was in flight at the same time.
C8_NoSharedFile ==
  \A x \in accesses : \A y \in accesses :
    (x[1] = y[1] /\ <<x[2], y[2]>> \in overlap) => x[2] = y[2]

\* C8 amended: the only files two calls both read or write are the fixed
\* output files of the home directory, marp_output.<ext>, which every
\* marp_convert that moves its output there writes; the files of the
\* temporary directories are each touched by one call only.
C8_OnlyHomeShared ==
  \A x \in accesses : \A y \in accesses :
    (x[1] = y[1] /\ x[2] # y[2]) =>
      x[1] \in {HomePath("marp_output" \o ext_map[f]) : f \in DOMAIN ext_map}

C8_Witness ==
  \E i \in Procs : \E j \in Procs :
    /\ <<i, j>> \in overlap /\ Done(i) /\ Done(j)
    /\ <<HomePath("marp_output.pdf"), i>> \in accesses
    /\ <<HomePath("marp_output.pdf"), j>> \in accesses

\* the extension table of the claim
ClaimedExt(fmt) ==
  CASE fmt = "html" -> ".html" [] fmt = "pdf" -> ".pdf" [] fmt = "pptx" -> ".pptx"
    [] fmt = "png" -> ".png" [] fmt = "jpeg" -> ".jpg" [] OTHER -> ".html"

\* the argument list of the claim, with the theme added when Themed and the
\* flag of an options field added when Flagged holds of it
ClaimedArgs(i, Themed(_), Flagged(_, _)) ==
  LET a == arguments[i]
      o == DictGet(a, "options", EmptyDict)
      dir == "/tmp/tmp" \o ToString(i) \o "/"
  IN <<dir \o "input.md", "-o", dir \o "output" \o ClaimedExt(FormatOf(i))>>
       \o (IF Themed(a) THEN <<"--theme", a.theme>> ELSE <<>>)
       \o (IF Flagged(o, "allow_local_files") THEN <<"--allow-local-files">> ELSE <<>>)
       \o (IF Flagged(o, "html") THEN <<"--html">> ELSE <<>>)
       \o (IF Flagged(o, "pdf_notes") THEN <<"--pdf-notes">> ELSE <<>>)
       \o (IF Flagged(o, "pdf_outlines") THEN <<"--pdf-outlines">> ELSE <<>>)

Supplied(a) == "theme" \in DOMAIN a
Present(o, field) == field \in DOMAIN o
SuppliedNonEmpty(a) == "theme" \in DOMAIN a /\ a.theme # ""
PresentAndTrue(o, field) == field \in DOMAIN o /\ o[field]

\* C9 as stated: marp_convert passes the renderer [input, "-o", output],
\* then "--theme", theme if a theme was supplied, then one flag for each
\* boolean field present in options; the output's extension follows the
\* fixed table, .html for an unrecognized format.
C9_ArgsAsStated ==
  \A i \in Procs :
    (pc[i] = "probe" /\ name[i] = "marp_convert") =>
      args[i] = ClaimedArgs(i, Supplied, Present)

\* C9 amended: "--theme", theme is added if a non-empty theme was supplied,
\* and a flag is added for each field of options that is present and true.
C9_ArgsTruthy ==
  \A i \in Procs :
    (pc[i] = "probe" /\ name[i] = "marp_convert") =>
      args[i] = ClaimedArgs(i, SuppliedNonEmpty, PresentAndTrue)

C9_Witness ==
  \E i \in Procs :
    /\ pc[i] = "probe" /\ name[i] = "marp_convert" /\ FormatOf(i) = "jpeg"
    /\ Len(args[i]) = 9

\* C10 as stated: when the renderer of a marp_convert failed or left no
\* output file, the envelope is one text item whose reason is the error
\* channel's text if the process exited nonzero and there is such text, and
\* "Unknown error" otherwise.
C10_ReasonAsStated ==
  \A i \in Procs :
    (/\ Done(i) /\ name[i] = "marp_convert" /\ Exited(i)
     /\ Decodable(i)
     /\ (proc[i].rc # 0 \/ ~proc[i].produced)) =>
      envelope[i] =
        <<Text("Error converting markdown: "
                 \o (IF proc[i].rc # 0 /\ proc[i].stderr # <<>>
                     THEN Decode(proc[i].stderr) ELSE "Unknown error"))>>

\* C10 amended: the reason is the error channel's text if the process
\* exited nonzero with text on it, "Command failed" if it exited nonzero
\* with an empty error channel, "Unknown error" if it exited 0 without the
\* output file, and the decoding error's text if the output channel or the
\* error channel is not UTF-8.
C10_Reason ==
  \A i \in Procs :
    (/\ Done(i) /\ name[i] = "marp_convert" /\ Exited(i)
     /\ (proc[i].rc # 0 \/ ~proc[i].produced \/ ~Decodable(i))) =>
      envelope[i] =
        <<Text("Error converting markdown: "
                 \o (IF ~Decodable(i)
                       THEN "'utf-8' codec can't decode byte 0xff in position 0: "
                              \o "invalid start byte"
                     ELSE IF proc[i].rc # 0 /\ proc[i].stderr # <<>>
                       THEN Decode(proc[i].stderr)
                     ELSE IF proc[i].rc # 0 THEN "Command failed"
                     ELSE "Unknown error"))>>

C10_Witness ==
  \E i \in Procs :
    /\ Done(i) /\ name[i] = "marp_convert" /\ Exited(i)
    /\ proc[i].rc = 1 /\ proc[i].stderr = <<>> /\ proc[i].stdout = <<>>

====
